---- MODULE Spec2Model ----
(***************************************************************************)
(* Smart Subway Navigator: the Graph class of SubwayNYC.cpp (adjacency     *)
(* list, addEdge, addBidirectionalEdge, dijkstra) and buildSampleGraph.    *)
(*                                                                         *)
(* The std::unordered_map containers are functions whose DOMAIN is the set *)
(* of keys present.  operator[] on a missing key inserts a                 *)
(* value-initialised entry (0, the pair ("", ""), the empty vector) and    *)
(* the model inserts it too.                                               *)
(***************************************************************************)
EXTENDS Integers, Sequences, FiniteSets, TLC

\* ------------------------------------------------------------------ bounds
MaxEdges == 2
MaxCost == 1
MaxPenalty == 3
MaxPathLen == 5

\* ------------------------------------------------------- program constants
IntMax == 2147483647
MainTransferCost == 2

\* ------------------------------------------------------------- input sets
Stations == {"A", "B", "C"}
Lines == {"1", "2"}
Costs == {0, MaxCost}
Penalties == {0, MainTransferCost}
NetPenalties == MainTransferCost .. MaxPenalty

VARIABLES adjList, pc, source, destination, transferCost, dist, parent, pq,
          cur, fullPath, result, adj0, settled, stopped

vars == <<adjList, pc, source, destination, transferCost, dist, parent, pq,
          cur, fullPath, result, adj0, settled, stopped>>

\* ------------------------------------------------------------ containers
EmptyMap == <<>>

\* unordered_map::operator[] on a map of int: the map after the access.
TouchDist(d, k) == IF k \in DOMAIN d THEN d ELSE d @@ (k :> 0)

\* unordered_map::operator[] on a map of pair<string, string>.
TouchParent(p, k) == IF k \in DOMAIN p THEN p ELSE p @@ (k :> <<"", "">>)

\* unordered_map::operator[] on the adjacency list.
TouchAdj(a, k) == IF k \in DOMAIN a THEN a ELSE a @@ (k :> <<>>)

\* map[k] = v
Put(m, k, v) == [x \in DOMAIN m \cup {k} |-> IF x = k THEN v ELSE m[x]]

Edge(to, cost, line) == [destination |-> to, cost |-> cost, line |-> line]

Node(cost, station, line) == [cost |-> cost, station |-> station, line |-> line]

\* ------------------------------------------------------------ Graph store
AddEdgeTo(a, from, to, cost, line) ==
    Put(a, from, Append(TouchAdj(a, from)[from], Edge(to, cost, line)))

AddBidirectionalEdgeTo(a, s1, s2, cost, line) ==
    AddEdgeTo(AddEdgeTo(a, s1, s2, cost, line), s2, s1, cost, line)

NumEdges(a) ==
    LET RECURSIVE Sum(_)
        Sum(K) == IF K = {} THEN 0
                  ELSE LET k == CHOOSE x \in K : TRUE
                       IN Len(a[k]) + Sum(K \ {k})
    IN Sum(DOMAIN a)

SampleLinks ==
    << <<"Times Sq", "42nd St", 4, "1">>,
       <<"42nd St", "34th St", 5, "1">>,
       <<"34th St", "Penn Station", 6, "1">>,
       <<"42nd St", "Grand Central", 3, "2">>,
       <<"Grand Central", "14th St", 6, "2">>,
       <<"14th St", "Wall St", 7, "2">>,
       <<"34th St", "Union Sq", 4, "3">>,
       <<"Union Sq", "Houston St", 7, "3">>,
       <<"Houston St", "Canal St", 5, "3">>,
       <<"Grand Central", "Union Sq", 4, "Interchange">> >>

RECURSIVE AddLinks(_, _, _)
AddLinks(a, links, i) ==
    IF i > Len(links) THEN a
    ELSE AddLinks(AddBidirectionalEdgeTo(a, links[i][1], links[i][2],
                                         links[i][3], links[i][4]),
                  links, i + 1)

SampleGraph == AddLinks(EmptyMap, SampleLinks, 1)

\* Every station name the store mentions: keys and edge destinations.
StationsOf(a) ==
    DOMAIN a \cup
    UNION {{a[k][i].destination : i \in 1 .. Len(a[k])} : k \in DOMAIN a}

\* ------------------------------------------------------------- dijkstra
\* InitDist with every station starting at cost 0 instead of the sentinel.
InitDistZero(a, s) == Put([k \in DOMAIN a |-> 0], s, 0)

\* Lines 56-62: the cost table and the back-pointer of the source.
InitDist(a, s) == Put([k \in DOMAIN a |-> IntMax], s, 0)

InitParent(s) == (s :> <<"", "">>)

\* Relax without the transfer cost of line 87-88.
RelaxNoTransfer(st, current, edge, penalty) ==
    LET newCost == current.cost + edge.cost
        d == TouchDist(st.dist, edge.destination)
    IN IF newCost < d[edge.destination]
       THEN [dist |-> Put(d, edge.destination, newCost),
             parent |-> Put(st.parent, edge.destination,
                            <<current.station, edge.line>>),
             pq |-> st.pq \cup {Node(newCost, edge.destination, edge.line)}]
       ELSE [st EXCEPT !.dist = d]

\* Lines 85-94: one edge relaxed from the popped node `current`.
Relax(st, current, edge, penalty) ==
    LET extra == IF current.line # "" /\ current.line # edge.line
                 THEN penalty ELSE 0
        newCost == current.cost + edge.cost + extra
        d == TouchDist(st.dist, edge.destination)
    IN IF newCost < d[edge.destination]
       THEN [dist |-> Put(d, edge.destination, newCost),
             parent |-> Put(st.parent, edge.destination,
                            <<current.station, edge.line>>),
             pq |-> st.pq \cup {Node(newCost, edge.destination, edge.line)}]
       ELSE [st EXCEPT !.dist = d]

\* Line 84: the loop over the popped station's edges, in vector order.
\* (Each intermediate state is bound as a value before the next edge.)
RECURSIVE RelaxAll(_, _, _, _, _)
RelaxAll(st, current, edges, i, penalty) ==
    IF i > Len(edges) THEN st
    ELSE CHOOSE r \in {RelaxAll(n, current, edges, i + 1, penalty) :
                         n \in {Relax(st, current, edges[i], penalty)}} : TRUE

\* IsTop with the comparison of the heap turned round: the dearest entry.
IsTopDearest(q, n) == n \in q /\ \A m \in q : n.cost >= m.cost

\* pq.top(): an entry of least cost (the order among equal costs is the
\* heap's and is left open).
IsTop(q, n) == n \in q /\ \A m \in q : n.cost <= m.cost

\* Line 80: the popped entry costs more than the station's best-known cost.
IsStale(d, current) ==
    current.cost > TouchDist(d, current.station)[current.station]

\* Lines 84-95 for a popped, non-stale node that is not the destination:
\* the search state and the adjacency list after the iteration.
Expand(st, a, current, penalty) ==
    LET d == TouchDist(st.dist, current.station)
        a1 == TouchAdj(a, current.station)
        r == RelaxAll([dist |-> d, parent |-> st.parent,
                       pq |-> st.pq \ {current}],
                      current, a1[current.station], 1, penalty)
    IN [dist |-> r.dist, parent |-> r.parent, pq |-> r.pq, adj |-> a1]

Unreachable == [cost |-> -1, path |-> <<>>]

NoResult == [cost |-> 0, path |-> <<>>]

Reverse(s) == [i \in 1 .. Len(s) |-> s[Len(s) + 1 - i]]

\* Lines 105-106: the entry pushed for `c` and the station stepped back to.
BackStep(par, c) ==
    LET p1 == TouchParent(par, c)
    IN [parent |-> p1, entry |-> <<c, p1[c][2]>>, next |-> p1[c][1]]

\* RouteResult without the push of the source at line 108.
RouteResultNoSource(d, path, s, dst) ==
    [cost |-> TouchDist(d, dst)[dst], path |-> Reverse(path)]

\* Lines 108-110: the returned pair once the walk has reached the source.
RouteResult(d, path, s, dst) ==
    [cost |-> TouchDist(d, dst)[dst],
     path |-> Reverse(Append(path, <<s, "">>))]

\* ------------------------------------------- dijkstra as a whole call
\* Lines 77-96 run from a search state: every state the loop can end in,
\* over the orders in which equal-cost entries may be popped.  With
\* earlyStop = FALSE line 82-83 is left out and the queue is drained.
RECURSIVE Drain(_, _, _, _, _)
Drain(st, a, dst, penalty, earlyStop) ==
    IF st.pq = {}
    THEN {[dist |-> st.dist, parent |-> st.parent, pq |-> st.pq, adj |-> a,
           stopped |-> FALSE]}
    ELSE UNION {
        IF IsStale(st.dist, c)
        THEN Drain([dist |-> TouchDist(st.dist, c.station),
                    parent |-> st.parent, pq |-> st.pq \ {c}],
                   a, dst, penalty, earlyStop)
        ELSE IF earlyStop /\ c.station = dst
        THEN {[dist |-> TouchDist(st.dist, c.station), parent |-> st.parent,
               pq |-> st.pq \ {c}, adj |-> a, stopped |-> TRUE]}
        ELSE LET e == Expand(st, a, c, penalty)
             IN Drain([dist |-> e.dist, parent |-> e.parent, pq |-> e.pq],
                      e.adj, dst, penalty, earlyStop)
        : c \in {n \in st.pq : IsTop(st.pq, n)}}

\* Lines 104-110 run from `c`.
RECURSIVE Back(_, _, _, _, _, _)
Back(d, par, s, dst, c, path) ==
    IF c = s
    THEN [status |-> "done", result |-> RouteResult(d, path, s, dst)]
    ELSE IF Len(path) >= MaxPathLen
    THEN [status |-> "bad_alloc", result |-> NoResult]
    ELSE LET b == BackStep(par, c)
         IN Back(d, b.parent, s, dst, b.next, Append(path, b.entry))

\* Lines 98-110 from the state the loop ended in.
Finish(f, s, dst) ==
    IF TouchDist(f.dist, dst)[dst] = IntMax
    THEN [status |-> "done", result |-> Unreachable]
    ELSE Back(f.dist, f.parent, s, dst, dst, <<>>)

\* The possible outcomes of dijkstra(s, dst, penalty) on the graph a.
Outcomes(a, s, dst, penalty) ==
    {Finish(f, s, dst) :
        f \in Drain([dist |-> InitDist(a, s), parent |-> InitParent(s),
                     pq |-> {Node(0, s, "")}], a, dst, penalty, TRUE)}

\* ------------------------------------------------------------------ Init
Init ==
    /\ adjList = EmptyMap
    /\ pc = "idle"
    /\ source = ""
    /\ destination = ""
    /\ transferCost = 0
    /\ dist = EmptyMap
    /\ parent = EmptyMap
    /\ pq = {}
    /\ cur = ""
    /\ fullPath = <<>>
    /\ result = NoResult
    /\ adj0 = EmptyMap
    /\ settled = EmptyMap
    /\ stopped = FALSE

CallVarsReset ==
    /\ pc' = "idle"
    /\ source' = ""
    /\ destination' = ""
    /\ transferCost' = 0
    /\ dist' = EmptyMap
    /\ parent' = EmptyMap
    /\ pq' = {}
    /\ cur' = ""
    /\ fullPath' = <<>>
    /\ result' = NoResult
    /\ adj0' = EmptyMap
    /\ settled' = EmptyMap
    /\ stopped' = FALSE

Callable == pc = "idle"

\* ------------------------------------------------------------ operations
AddEdge ==
    /\ Callable
    /\ NumEdges(adjList) + 1 <= MaxEdges
    /\ \E from \in Stations, to \in Stations, cost \in Costs, line \in Lines :
          /\ from # to
          /\ adjList' = AddEdgeTo(adjList, from, to, cost, line)
    /\ CallVarsReset

AddBidirectionalEdge ==
    /\ Callable
    /\ NumEdges(adjList) + 2 <= MaxEdges
    /\ \E s1 \in Stations, s2 \in Stations, cost \in Costs, line \in Lines :
          /\ s1 # s2
          /\ adjList' = AddBidirectionalEdgeTo(adjList, s1, s2, cost, line)
    /\ CallVarsReset

\* main builds the sample network on the freshly constructed graph.
BuildSampleGraph ==
    /\ Callable
    /\ adjList = EmptyMap
    /\ adjList' = AddLinks(adjList, SampleLinks, 1)
    /\ CallVarsReset

\* Lines 50-75: entry of dijkstra up to the first push.
CallWith(P) ==
    /\ Callable
    /\ \E s \in StationsOf(adjList) \cup Stations \cup {""},
          d \in StationsOf(adjList) \cup Stations \cup {""},
          p \in P :
          /\ source' = s
          /\ destination' = d
          /\ transferCost' = p
          /\ dist' = InitDist(adjList, s)
          /\ parent' = InitParent(s)
          /\ pq' = {Node(0, s, "")}
    /\ pc' = "search"
    /\ cur' = ""
    /\ fullPath' = <<>>
    /\ result' = NoResult
    /\ adj0' = adjList
    /\ settled' = EmptyMap
    /\ stopped' = FALSE
    /\ UNCHANGED adjList

Call == CallWith(Penalties)

\* Lines 78-81: a stale entry is popped and skipped.
PopStale ==
    /\ pc = "search"
    /\ \E current \in pq :
          /\ IsTop(pq, current)
          /\ IsStale(dist, current)
          /\ pq' = pq \ {current}
          /\ dist' = TouchDist(dist, current.station)
    /\ UNCHANGED <<adjList, pc, source, destination, transferCost, parent,
                   cur, fullPath, result, adj0, settled, stopped>>

\* Lines 78-83: the destination is popped with its best-known cost.
PopDestination ==
    /\ pc = "search"
    /\ \E current \in pq :
          /\ IsTop(pq, current)
          /\ ~IsStale(dist, current)
          /\ current.station = destination
          /\ pq' = pq \ {current}
          /\ dist' = TouchDist(dist, current.station)
          /\ settled' = Put(settled, current.station,
                            <<dist'[current.station],
                              TouchParent(parent, current.station)[current.station]>>)
    /\ pc' = "finish"
    /\ stopped' = TRUE
    /\ UNCHANGED <<adjList, source, destination, transferCost, parent,
                   cur, fullPath, result, adj0>>

\* Lines 78-95: a station other than the destination is popped and its
\* edges are relaxed.
PopExpand ==
    /\ pc = "search"
    /\ \E current \in pq :
          /\ IsTop(pq, current)
          /\ ~IsStale(dist, current)
          /\ current.station # destination
          /\ LET st == Expand([dist |-> dist, parent |-> parent, pq |-> pq],
                              adjList, current, transferCost)
             IN /\ adjList' = st.adj
                /\ dist' = st.dist
                /\ parent' = st.parent
                /\ pq' = st.pq
          /\ settled' = Put(settled, current.station,
                            <<TouchDist(dist, current.station)[current.station],
                              TouchParent(parent, current.station)[current.station]>>)
    /\ UNCHANGED <<pc, source, destination, transferCost, cur, fullPath,
                   result, adj0, stopped>>

\* Line 77: the queue is empty and the loop ends.
QueueExhausted ==
    /\ pc = "search"
    /\ pq = {}
    /\ pc' = "finish"
    /\ UNCHANGED <<adjList, source, destination, transferCost, dist, parent,
                   pq, cur, fullPath, result, adj0, settled, stopped>>

\* Lines 98-101: the destination's cost is still the sentinel.
ReturnUnreachable ==
    /\ pc = "finish"
    /\ TouchDist(dist, destination)[destination] = IntMax
    /\ dist' = TouchDist(dist, destination)
    /\ result' = Unreachable
    /\ pc' = "done"
    /\ UNCHANGED <<adjList, source, destination, transferCost, parent, pq,
                   cur, fullPath, adj0, settled, stopped>>

\* Lines 99, 103: the destination has a cost; reconstruction starts.
StartReconstruct ==
    /\ pc = "finish"
    /\ TouchDist(dist, destination)[destination] # IntMax
    /\ dist' = TouchDist(dist, destination)
    /\ cur' = destination
    /\ pc' = "reconstruct"
    /\ UNCHANGED <<adjList, source, destination, transferCost, parent, pq,
                   fullPath, result, adj0, settled, stopped>>

\* Lines 104-107: one step back along the back-pointers.
ReconstructStep ==
    /\ pc = "reconstruct"
    /\ cur # source
    /\ Len(fullPath) < MaxPathLen
    /\ LET b == BackStep(parent, cur)
       IN /\ parent' = b.parent
          /\ fullPath' = Append(fullPath, b.entry)
          /\ cur' = b.next
    /\ UNCHANGED <<adjList, pc, source, destination, transferCost, dist, pq,
                   result, adj0, settled, stopped>>

\* Line 105: push_back finds no memory left for the growing vector and
\* throws std::bad_alloc, which nothing catches.
ReconstructOutOfMemory ==
    /\ pc = "reconstruct"
    /\ cur # source
    /\ Len(fullPath) >= MaxPathLen
    /\ pc' = "bad_alloc"
    /\ UNCHANGED <<adjList, source, destination, transferCost, dist, parent,
                   pq, cur, fullPath, result, adj0, settled, stopped>>

\* Lines 108-110: the source is reached; the path is reversed and returned.
ReturnRoute ==
    /\ pc = "reconstruct"
    /\ cur = source
    /\ dist' = TouchDist(dist, destination)
    /\ result' = RouteResult(dist, fullPath, source, destination)
    /\ fullPath' = result'.path
    /\ pc' = "done"
    /\ UNCHANGED <<adjList, source, destination, transferCost, parent, pq,
                   cur, adj0, settled, stopped>>

\* main, lines 194-219: the caller prints the returned result and lets go
\* of it.
Report ==
    /\ pc = "done"
    /\ CallVarsReset
    /\ UNCHANGED adjList

Next ==
    \/ AddEdge
    \/ AddBidirectionalEdge
    \/ BuildSampleGraph
    \/ Call
    \/ PopStale
    \/ PopDestination
    \/ PopExpand
    \/ QueueExhausted
    \/ ReturnUnreachable
    \/ StartReconstruct
    \/ ReconstructStep
    \/ ReconstructOutOfMemory
    \/ ReturnRoute
    \/ Report

Spec == Init /\ [][Next]_vars

\* ------------------------------------------------- queries on built networks
\* A four-station network with two lines between A and C.
TransferLinks ==
    << <<"A", "B", 0, "2">>,
       <<"A", "C", 3, "2">>,
       <<"B", "C", 0, "1">>,
       <<"C", "D", 0, "2">> >>

TransferGraph == AddLinks(EmptyMap, TransferLinks, 1)

Networks == {SampleGraph, TransferGraph}

InitNet ==
    /\ adjList \in Networks
    /\ pc = "idle"
    /\ source = ""
    /\ destination = ""
    /\ transferCost = 0
    /\ dist = EmptyMap
    /\ parent = EmptyMap
    /\ pq = {}
    /\ cur = ""
    /\ fullPath = <<>>
    /\ result = NoResult
    /\ adj0 = EmptyMap
    /\ settled = EmptyMap
    /\ stopped = FALSE

CallNet == CallWith(NetPenalties)

DijkstraStep ==
    \/ PopStale
    \/ PopDestination
    \/ PopExpand
    \/ QueueExhausted
    \/ ReturnUnreachable
    \/ StartReconstruct
    \/ ReconstructStep
    \/ ReconstructOutOfMemory
    \/ ReturnRoute

NextNet == CallNet \/ DijkstraStep \/ Report

NetSpec == InitNet /\ [][NextNet]_vars

\* The call is synchronous and single-threaded: once entered, its next step
\* is always taken.
FairNetSpec == NetSpec /\ WF_vars(DijkstraStep)

\* --------------------------------------------------- reference definitions
\* The transfer-cost model, by enumeration of the simple paths from u to
\* dst, having arrived at u on `line` ("" at the source); IntMax if none.
Least(S) == IF S = {} THEN IntMax ELSE CHOOSE x \in S : \A y \in S : x <= y

EdgesOf(a, u) == IF u \in DOMAIN a THEN a[u] ELSE <<>>

RECURSIVE BestFrom(_, _, _, _, _, _)
BestFrom(a, u, line, dst, penalty, visited) ==
    IF u = dst THEN 0
    ELSE Least({
        LET e == EdgesOf(a, u)[i]
            rest == BestFrom(a, e.destination, e.line, dst, penalty,
                             visited \cup {e.destination})
        IN IF rest = IntMax THEN IntMax
           ELSE e.cost + rest +
                (IF line # "" /\ line # e.line THEN penalty ELSE 0)
        : i \in {j \in 1 .. Len(EdgesOf(a, u)) :
                    EdgesOf(a, u)[j].destination \notin visited}})

TrueMin(a, s, dst, penalty) == BestFrom(a, s, "", dst, penalty, {s})

RECURSIVE ReachFrom(_, _)
ReachFrom(a, R) ==
    LET more == R \cup UNION {{EdgesOf(a, u)[i].destination :
                                 i \in 1 .. Len(EdgesOf(a, u))} : u \in R}
    IN IF more = R THEN R ELSE ReachFrom(a, more)

Reachable(a, s, dst) == dst \in ReachFrom(a, {s})

HasEdges(a, u) == u \in DOMAIN a /\ Len(a[u]) > 0

\* The totals an itinerary can stand for: for each consecutive pair an edge
\* of the store with the stated line, plus the penalty at each change of
\* line after the first edge.  Empty if some pair is no edge.
RECURSIVE ItineraryCosts(_, _, _, _)
ItineraryCosts(a, path, i, penalty) ==
    IF i >= Len(path) THEN {0}
    ELSE LET u == path[i][1]
             v == path[i + 1][1]
             l == path[i + 1][2]
             extra == IF i > 1 /\ path[i][2] # l THEN penalty ELSE 0
         IN {EdgesOf(a, u)[j].cost + extra + r :
               j \in {k \in 1 .. Len(EdgesOf(a, u)) :
                        /\ EdgesOf(a, u)[k].destination = v
                        /\ EdgesOf(a, u)[k].line = l},
               r \in ItineraryCosts(a, path, i + 1, penalty)}

Ended == pc \in {"done", "bad_alloc"}

Returned == pc = "done"

Success == Returned /\ result # Unreachable

TypeOK == pc \in {"idle", "search", "finish", "reconstruct", "done", "bad_alloc"}

\* ------------------------------------------------------------------ claims
\* The costs dijkstra(s, dst, penalty) can return with a route on the graph
\* a, over the orders in which the heap may pop equal-cost entries.
RouteCosts(a, s, dst, penalty) ==
    {o.result.cost : o \in {x \in Outcomes(a, s, dst, penalty) :
                               x.status = "done" /\ x.result # Unreachable}}

\* C1: for every reachable pair the cost dijkstra returns is the least total
\* over all paths of edge costs plus one penalty per change of line (none on
\* the first edge), whichever way the heap orders equal-cost entries.
C1_ReturnsTrueMinimum ==
    (Returned /\ Reachable(adj0, source, destination))
        => TrueMin(adj0, source, destination, transferCost)
              \in RouteCosts(adj0, source, destination, transferCost)

\* C2: a returned itinerary follows edges of the store with the stated lines
\* and its edge costs plus transfer penalties add up to the returned cost.
C2_ItineraryValid ==
    Success => result.cost \in ItineraryCosts(adj0, result.path, 1, transferCost)

\* C3: a call whose source or destination is absent from the graph (and
\* source # destination) ends by returning the unreachable result.
C3_AbsentIsUnreachable ==
    (/\ Ended
     /\ source # destination
     /\ (source \notin StationsOf(adj0) \/ destination \notin StationsOf(adj0)))
        => (Returned /\ result = Unreachable)

\* C4: two distinct stations that both have outgoing edges, with no directed
\* path from the source to the destination, give the unreachable result.
C4Case ==
    /\ source # destination
    /\ HasEdges(adj0, source)
    /\ HasEdges(adj0, destination)
    /\ ~Reachable(adj0, source, destination)

C4_DisconnectedUnreachable ==
    (Ended /\ C4Case) => (Returned /\ result = Unreachable)

C4_Witness == Returned /\ C4Case /\ result = Unreachable

\* C5: dijkstra(s, s, p) returns cost 0 and the itinerary [(s, "")].
C5_SameStation ==
    (Ended /\ source = destination)
        => (Returned /\ result = [cost |-> 0, path |-> << <<source, "">> >>])

C5_Witness ==
    /\ Returned
    /\ source = destination
    /\ HasEdges(adj0, source)
    /\ transferCost > 0
    /\ result = [cost |-> 0, path |-> << <<source, "">> >>]

\* C6: on a fixed graph and pair for which a route is returned, a smaller
\* penalty never gives a larger returned cost (for some way of ordering the
\* equal-cost entries in the two calls).
C6_MonotoneInPenalty ==
    Success =>
        \A p1 \in 0 .. transferCost :
            LET small == RouteCosts(adj0, source, destination, p1)
                large == RouteCosts(adj0, source, destination, transferCost)
            IN small = {} \/ \E c1 \in small, c2 \in large : c1 <= c2

\* C7: a call of dijkstra leaves the keys of adjList and every station's
\* edge sequence as they were when it was entered.
C7_GraphUnchanged == pc # "idle" => adjList = adj0

\* C8: every call of dijkstra that is entered returns a result.
C8_CallCompletes == (pc = "search") ~> (pc = "done")

\* C9: on the sample network, Times Sq to Grand Central with penalty 2 costs
\* 9 by way of 42nd St, line 1 then line 2.
C9Case ==
    /\ adj0 = SampleGraph
    /\ source = "Times Sq"
    /\ destination = "Grand Central"
    /\ transferCost = 2

C9Route ==
    [cost |-> 9,
     path |-> << <<"Times Sq", "">>, <<"42nd St", "1">>,
                 <<"Grand Central", "2">> >>]

C9_SampleRoute == (Ended /\ C9Case) => (Returned /\ result = C9Route)

C9_Witness == Returned /\ C9Case /\ result = C9Route

\* C10: a station popped with its best-known cost keeps that cost and its
\* back-pointer for the rest of the search, and at the early stop the
\* destination's cost is the one a search draining the queue would record.
C10_Settled ==
    \A u \in DOMAIN settled :
        /\ u \in DOMAIN dist /\ dist[u] = settled[u][1]
        /\ u \in DOMAIN parent /\ parent[u] = settled[u][2]

C10_EarlyStopFinal ==
    stopped =>
        \A f \in Drain([dist |-> dist, parent |-> parent,
                        pq |-> pq \cup {Node(dist[destination], destination,
                                             parent[destination][2])}],
                       adjList, destination, transferCost, FALSE) :
            f.dist[destination] = dist[destination]

C10_Finality == C10_Settled /\ C10_EarlyStopFinal

C10_Witness ==
    /\ stopped
    /\ Returned
    /\ Cardinality(DOMAIN settled) >= 3
    /\ transferCost > 0
    /\ \E n \in pq : n.station # destination
====
